---- MODULE Spec2Model ----
(***************************************************************************)
(* Model of diff_cover/snippets.py: the Snippet class, which groups the    *)
(* violation lines of a source file into context-padded line ranges        *)
(* (_snippet_ranges), cuts the file into one snippet per range             *)
(* (load_snippets), and shifts the violation lines to snippet-relative     *)
(* line numbers for the highlighter (_shift_lines, used by html).          *)
(*                                                                         *)
(* A text is a sequence of one-character strings; "\n" is the line         *)
(* separator.  A Python list of line numbers is a sequence of integers.    *)
(* Each behaviour is one call of one entry point: Init draws the entry     *)
(* point and its arguments, the actions run the called code.               *)
(***************************************************************************)
EXTENDS Integers, Sequences, FiniteSets

VARIABLES
    entry,            \* the entry point this behaviour calls
    pc,               \* "start", "done", "constructed" or "raised"
    contents,         \* text: the file's contents / the src_str argument
    num_src_lines,    \* argument of _snippet_ranges (len(src_lines) in load_snippets)
    violation_lines,  \* list of line numbers (line_num_list for _shift_lines)
    start_line,       \* start_line argument (Snippet(), _shift_lines)
    snippet_ranges,   \* list of (start, end) returned by _snippet_ranges
    snippet_list,     \* list of Snippet objects
    hl_lines,         \* per snippet, the hl_lines handed to HtmlFormatter
    shifted,          \* list returned by a direct call of _shift_lines
    error             \* "" or the name of the exception raised

vars == <<entry, pc, contents, num_src_lines, violation_lines, start_line,
          snippet_ranges, snippet_list, hl_lines, shifted, error>>

(***************************************************************************)
(* Bounds of the model.                                                    *)
(***************************************************************************)
MaxLines == 12          \* largest num_src_lines / fixture file length
MaxViolations == 3      \* most distinct violation lines in a sorted list
MaxListLen == 2         \* longest violation list in any order (duplicates allowed)
MaxTextLen == 2         \* longest free-form text over TextChars
MaxSmallVal == 3        \* largest line number of the lists in any order
MaxShiftLen == 3        \* longest list handed to a direct _shift_lines call

(***************************************************************************)
(* Program constants.                                                      *)
(***************************************************************************)
NUM_CONTEXT_LINES == 4
MAX_GAP_IN_SNIPPET == 4

NL == "\n"

Max(a, b) == IF a >= b THEN a ELSE b
Min(a, b) == IF a <= b THEN a ELSE b

(***************************************************************************)
(* Python built-ins used by the code.                                      *)
(***************************************************************************)
\* x in list
In(x, list) == \E i \in DOMAIN list : list[i] = x

\* text.split('\n'): the segments between the separators, one more than
\* there are separators ("" gives the one segment "")
split(text) ==
    LET seps == {i \in 1..Len(text) : text[i] = NL}
        \* position of the k-th separator; 0 before the text, Len + 1 after it
        Sep(k) == IF k = 0 THEN 0
                  ELSE IF k > Cardinality(seps) THEN Len(text) + 1
                  ELSE CHOOSE p \in seps : Cardinality({q \in seps : q < p}) = k - 1
    IN  [k \in 1..(Cardinality(seps) + 1) |->
            SubSeq(text, Sep(k - 1) + 1, Sep(k) - 1)]

\* "\n".join(lines)
RECURSIVE join(_)
join(lines) ==
    IF lines = <<>> THEN <<>>
    ELSE IF Len(lines) = 1 THEN lines[1]
    ELSE lines[1] \o <<NL>> \o join(Tail(lines))

\* list[lo:hi] for lo, hi >= 0: the items at 0-based positions lo..hi-1,
\* cut to the list's length
PySlice(list, lo, hi) == SubSeq(list, lo + 1, Min(hi, Len(list)))

(***************************************************************************)
(* Snippet._snippet_ranges                                                 *)
(***************************************************************************)
\* None, and a value that is not None, as the components of current_range
None == <<>>
Some(v) == <<v>>

\* the locals of _snippet_ranges before the loop; line_num is the line the
\* next iteration of the for loop handles, range(1, num_src_lines + 1)
SweepInit ==
    [line_num |-> 1,
     current_range |-> <<None, None>>,
     lines_since_last_violation |-> 0,
     snippet_ranges |-> <<>>]

\* faulty variants of snippet_start: one line of context too few; no clamp at line 1
SnippetStart_ShortContext(line_num) == Max(1, line_num - NUM_CONTEXT_LINES + 1)
SnippetStart_Unclamped(line_num) == line_num - NUM_CONTEXT_LINES

\* snippet_start: the violation line minus the context, not before line 1
SnippetStart(line_num) == Max(1, line_num - NUM_CONTEXT_LINES)

\* faulty variant of snippet_end: the context is added to the current line
SnippetEnd_FromCurrentLine(line_num, lines_since_last_violation, num) ==
    Min(num, line_num + NUM_CONTEXT_LINES)

\* snippet_end: the last violation line plus the context, not after the last line
SnippetEnd(line_num, lines_since_last_violation, num) ==
    Min(num, (line_num - lines_since_last_violation) + NUM_CONTEXT_LINES)

\* faulty variant of the test that ends a snippet: >= for >
GapExceeded_AtTolerance(lines_since_last_violation) ==
    lines_since_last_violation >= MAX_GAP_IN_SNIPPET

\* the test that ends a snippet
GapExceeded(lines_since_last_violation) ==
    lines_since_last_violation > MAX_GAP_IN_SNIPPET

\* one iteration of the for loop, for line st.line_num
LoopBody(st, num, vlines) ==
    LET line_num == st.line_num
        branch ==
          IF st.current_range[1] = None THEN
              IF In(line_num, vlines)
              THEN [st EXCEPT !.current_range = <<Some(SnippetStart(line_num)), None>>,
                              !.lines_since_last_violation = 0]
              ELSE st
          ELSE IF st.current_range[2] = None THEN
              IF In(line_num, vlines)
              THEN [st EXCEPT !.lines_since_last_violation = 0]
              ELSE IF GapExceeded(st.lines_since_last_violation)
              THEN LET snippet_end ==
                         SnippetEnd(line_num, st.lines_since_last_violation, num)
                       closed == <<st.current_range[1][1], snippet_end>>
                   IN  [st EXCEPT !.snippet_ranges = Append(@, closed),
                                  !.current_range = <<None, None>>]
              ELSE st
          ELSE st
    IN  [branch EXCEPT !.lines_since_last_violation = @ + 1,
                       !.line_num = @ + 1]

\* the for loop: runs the body until line_num has passed the last line
RECURSIVE Sweep(_, _, _)
Sweep(st, num, vlines) ==
    IF st.line_num > num THEN st
    ELSE Sweep(LoopBody(st, num, vlines), num, vlines)

\* after the loop: a snippet that was started and not finished ends at the last line
Finish(st, num) ==
    IF st.current_range[1] # None /\ st.current_range[2] = None
    THEN Append(st.snippet_ranges, <<st.current_range[1][1], num>>)
    ELSE st.snippet_ranges

\* faulty variant of _snippet_ranges: the loop runs over range(num_src_lines + 1)
_snippet_ranges_FromLineZero(num, vlines) ==
    Finish(Sweep([SweepInit EXCEPT !.line_num = 0], num, vlines), num)

_snippet_ranges(num, vlines) == Finish(Sweep(SweepInit, num, vlines), num)

(***************************************************************************)
(* Snippet._shift_lines, Snippet.line_range, Snippet.html                  *)
(***************************************************************************)
\* faulty variants of _shift_lines: the start line itself is dropped; 0-based offsets
_shift_lines_AfterStart(line_num_list, start) ==
    LET kept == SelectSeq(line_num_list, LAMBDA line_num : line_num > start)
    IN  [i \in 1..Len(kept) |-> kept[i] - start + 1]
_shift_lines_ZeroBased(line_num_list, start) ==
    LET kept == SelectSeq(line_num_list, LAMBDA line_num : line_num >= start)
    IN  [i \in 1..Len(kept) |-> kept[i] - start]

_shift_lines(line_num_list, start) ==
    LET kept == SelectSeq(line_num_list, LAMBDA line_num : line_num >= start)
    IN  [i \in 1..Len(kept) |-> kept[i] - start + 1]

\* a Snippet object (src_filename only selects the lexer and is left out)
Snippet(src_str, start, vlines) ==
    [src_str |-> src_str, start_line |-> start, violation_lines |-> vlines]

line_range(snippet) ==
    LET num_lines == Len(split(snippet.src_str))
        end_line == snippet.start_line + num_lines - 1
    IN  <<snippet.start_line, end_line>>

\* the hl_lines argument html() builds for HtmlFormatter
html(snippet) == _shift_lines(snippet.violation_lines, snippet.start_line)

(***************************************************************************)
(* Snippet.load_snippets                                                   *)
(***************************************************************************)
\* faulty variant of the slice: src_lines[start:end]
SnippetText_FromStart(src_lines, start, end) == join(PySlice(src_lines, start, end))

\* src_lines[start - 1:end] joined again
SnippetText(src_lines, start, end) == join(PySlice(src_lines, start - 1, end))

load_snippets(text, vlines) ==
    LET src_lines == split(text)
        ranges == _snippet_ranges(Len(src_lines), vlines)
    IN  [i \in 1..Len(ranges) |->
            Snippet(SnippetText(src_lines, ranges[i][1], ranges[i][2]),
                    ranges[i][1], vlines)]

(***************************************************************************)
(* The fixture file of the tests: "Line 1", "Line 2", ... joined by "\n".  *)
(***************************************************************************)
DigitChar == <<"0", "1", "2", "3", "4", "5", "6", "7", "8", "9">>

\* "{0}".format(n) for n >= 0
RECURSIVE Decimal(_)
Decimal(n) ==
    IF n < 10 THEN <<DigitChar[n + 1]>>
    ELSE Decimal(n \div 10) \o <<DigitChar[(n % 10) + 1]>>

_src_lines(first, last) ==
    join([i \in 1..(last - first + 1) |->
             <<"L", "i", "n", "e", " ">> \o Decimal(first + i - 1)])

(***************************************************************************)
(* Inputs.                                                                 *)
(***************************************************************************)
RECURSIVE SortedSeq(_)
SortedSeq(S) ==
    IF S = {} THEN <<>>
    ELSE LET m == CHOOSE x \in S : \A y \in S : x <= y
         IN  <<m>> \o SortedSeq(S \ {m})

SeqsUpTo(S, n) == UNION {[1..k -> S] : k \in 0..n}

LineVals == -1..(MaxLines + 1)
SmallVals == -1..MaxSmallVal

\* ascending lists without duplicates
SortedLists ==
    {SortedSeq(S) : S \in {T \in SUBSET LineVals : Cardinality(T) <= MaxViolations}}

\* short lists in any order, duplicates allowed
ShortLists == SeqsUpTo(SmallVals, MaxListLen)

TextChars == {NL, "a"}

\* the fixture files of 0..MaxLines lines
FixtureTexts == {_src_lines(1, n) : n \in 0..MaxLines}

\* free-form texts: empty lines, a trailing newline, the empty text
ShortTexts == SeqsUpTo(TextChars, MaxTextLen)

Init ==
    /\ pc = "start"
    /\ snippet_ranges = <<>>
    /\ snippet_list = <<>>
    /\ hl_lines = <<>>
    /\ shifted = <<>>
    /\ error = ""
    /\ \/ /\ entry = "_snippet_ranges"
          /\ num_src_lines \in 0..MaxLines
          /\ violation_lines \in SortedLists \cup ShortLists
          /\ contents = <<>>
          /\ start_line = 1
       \/ /\ entry \in {"load_snippets", "load_snippets_html"}
          /\ \/ contents \in FixtureTexts /\ violation_lines \in SortedLists
             \/ contents \in ShortTexts /\ violation_lines \in ShortLists
          /\ num_src_lines = 0
          /\ start_line = 1
       \/ /\ entry = "_shift_lines"
          /\ violation_lines \in SeqsUpTo(SmallVals, MaxShiftLen)
          /\ start_line \in SmallVals
          /\ contents = <<>>
          /\ num_src_lines = 0
       \/ /\ entry = "Snippet"
          /\ contents \in ShortTexts
          /\ start_line \in SmallVals
          /\ violation_lines \in ShortLists
          /\ num_src_lines = 0

(***************************************************************************)
(* Actions: one per entry point.                                           *)
(***************************************************************************)
CallSnippetRanges ==
    /\ pc = "start" /\ entry = "_snippet_ranges"
    /\ snippet_ranges' = _snippet_ranges(num_src_lines, violation_lines)
    /\ pc' = "done"
    /\ UNCHANGED <<entry, contents, num_src_lines, violation_lines, start_line,
                   snippet_list, hl_lines, shifted, error>>

CallLoadSnippets ==
    /\ pc = "start" /\ entry = "load_snippets"
    /\ num_src_lines' = Len(split(contents))
    /\ snippet_ranges' = _snippet_ranges(Len(split(contents)), violation_lines)
    /\ snippet_list' = load_snippets(contents, violation_lines)
    /\ pc' = "done"
    /\ UNCHANGED <<entry, contents, violation_lines, start_line,
                   hl_lines, shifted, error>>

CallLoadSnippetsHtml ==
    /\ pc = "start" /\ entry = "load_snippets_html"
    /\ num_src_lines' = Len(split(contents))
    /\ snippet_ranges' = _snippet_ranges(Len(split(contents)), violation_lines)
    /\ snippet_list' = load_snippets(contents, violation_lines)
    /\ hl_lines' = [i \in DOMAIN snippet_list' |-> html(snippet_list'[i])]
    /\ pc' = "done"
    /\ UNCHANGED <<entry, contents, violation_lines, start_line, shifted, error>>

CallShiftLines ==
    /\ pc = "start" /\ entry = "_shift_lines"
    /\ shifted' = _shift_lines(violation_lines, start_line)
    /\ pc' = "done"
    /\ UNCHANGED <<entry, contents, num_src_lines, violation_lines, start_line,
                   snippet_ranges, snippet_list, hl_lines, error>>

\* Snippet(src_str, src_filename, start_line, violation_lines)
NewSnippet ==
    /\ pc = "start" /\ entry = "Snippet"
    /\ IF start_line < 1
       THEN /\ error' = "ValueError"
            /\ pc' = "raised"
            /\ UNCHANGED snippet_list
       ELSE /\ snippet_list' = <<Snippet(contents, start_line, violation_lines)>>
            /\ pc' = "constructed"
            /\ UNCHANGED error
    /\ UNCHANGED <<entry, contents, num_src_lines, violation_lines, start_line,
                   snippet_ranges, hl_lines, shifted>>

\* snippet.html() on the snippet just constructed
Html ==
    /\ pc = "constructed"
    /\ hl_lines' = <<html(snippet_list[1])>>
    /\ pc' = "done"
    /\ UNCHANGED <<entry, contents, num_src_lines, violation_lines, start_line,
                   snippet_ranges, snippet_list, shifted, error>>

Next ==
    \/ CallSnippetRanges
    \/ CallLoadSnippets
    \/ CallLoadSnippetsHtml
    \/ CallShiftLines
    \/ NewSnippet
    \/ Html

Spec == Init /\ [][Next]_vars

(***************************************************************************)
(* Vocabulary of the properties.                                           *)
(***************************************************************************)
\* a call that computed snippet ranges has returned
RangesDone ==
    /\ pc = "done"
    /\ entry \in {"_snippet_ranges", "load_snippets", "load_snippets_html"}

\* a call of load_snippets / load_snippets_html has returned
LoadDone == pc = "done" /\ entry \in {"load_snippets", "load_snippets_html"}

\* html() has been run on every snippet of snippet_list
HtmlDone == pc = "done" /\ entry \in {"load_snippets_html", "Snippet"}

\* the violation lines that are lines of the file
Flagged == {F \in 1..num_src_lines : In(F, violation_lines)}

Contains(r, F) == r[1] <= F /\ F <= r[2]

FlaggedIn(r) == {F \in Flagged : Contains(r, F)}

SetMin(S) == CHOOSE x \in S : \A y \in S : x <= y
SetMax(S) == CHOOSE x \in S : \A y \in S : x >= y

Values(list) == {list[i] : i \in DOMAIN list}

\* out lists, in input order, line - start + 1 for the lines >= start
ShiftedFrom(lines, start, out) ==
    LET KeptIdx == {i \in DOMAIN lines : lines[i] >= start}
        Rank(i) == Cardinality({j \in KeptIdx : j <= i})
    IN  /\ Len(out) = Cardinality(KeptIdx)
        /\ \A i \in KeptIdx :
              /\ Rank(i) \in DOMAIN out
              /\ out[Rank(i)] = lines[i] - start + 1

(***************************************************************************)
(* C1 (as claimed): the ranges returned by _snippet_ranges are sorted      *)
(* ascending by start and pairwise non-overlapping: consecutive ranges     *)
(* (s1, e1), (s2, e2) have e1 < s2.                                        *)
(* The code breaks it: two violations 6 to 8 lines apart are split, and    *)
(* the 4 lines of context after the first overlap the 4 lines of context   *)
(* before the second, e.g. [1, 7] gives (1, 5), (3, 11).                   *)
(***************************************************************************)
C1_SortedDisjoint ==
    RangesDone =>
        \A i \in 1..(Len(snippet_ranges) - 1) :
            /\ snippet_ranges[i][1] < snippet_ranges[i + 1][1]
            /\ snippet_ranges[i][2] < snippet_ranges[i + 1][1]

(***************************************************************************)
(* C2: every violation line F in 1..num_src_lines lies in at least one     *)
(* returned range, and every returned range (s, e) containing F has        *)
(* s <= max(1, F - 4) and e >= min(num_src_lines, F + 4).                  *)
(***************************************************************************)
C2_FlaggedCoveredWithContext ==
    RangesDone =>
        \A F \in Flagged :
            /\ \E i \in DOMAIN snippet_ranges : Contains(snippet_ranges[i], F)
            /\ \A i \in DOMAIN snippet_ranges :
                  Contains(snippet_ranges[i], F) =>
                      /\ snippet_ranges[i][1] <= Max(1, F - 4)
                      /\ snippet_ranges[i][2] >= Min(num_src_lines, F + 4)

\* two ranges; a violation whose leading context is cut at line 1, one whose
\* trailing context is cut at the last line, and one with its full context
C2_Witness ==
    /\ RangesDone
    /\ Len(snippet_ranges) >= 2
    /\ \E F \in Flagged : F - 4 < 1
    /\ \E F \in Flagged : F + 4 > num_src_lines
    /\ \E F \in Flagged : F - 4 > 1 /\ F + 4 < num_src_lines

(***************************************************************************)
(* C3: every returned range (start, end) has                               *)
(* 1 <= start <= end <= num_src_lines, also when the violation lines hold  *)
(* values <= 0 or > num_src_lines.                                         *)
(***************************************************************************)
C3_RangesWithinFile ==
    RangesDone =>
        \A i \in DOMAIN snippet_ranges :
            /\ 1 <= snippet_ranges[i][1]
            /\ snippet_ranges[i][1] <= snippet_ranges[i][2]
            /\ snippet_ranges[i][2] <= num_src_lines

\* out-of-file violation lines on both sides, and ranges clamped on both sides
C3_Witness ==
    /\ RangesDone
    /\ \E v \in Values(violation_lines) : v <= 0
    /\ \E v \in Values(violation_lines) : v > num_src_lines
    /\ Len(snippet_ranges) >= 1
    /\ snippet_ranges[1][1] = 1
    /\ snippet_ranges[Len(snippet_ranges)][2] = num_src_lines
    /\ \E F \in Flagged : F - 4 < 1 /\ F + 4 > num_src_lines

(***************************************************************************)
(* C4: two violation lines a < b in 1..num_src_lines with no violation     *)
(* line strictly between them are in a common returned range exactly when  *)
(* b - a - 1 <= 4; when b - a - 1 > 4 no returned range contains both.     *)
(***************************************************************************)
C4_GapTolerance ==
    RangesDone =>
        \A a \in Flagged : \A b \in Flagged :
            (a < b /\ ~ \E c \in Flagged : a < c /\ c < b) =>
                ((\E i \in DOMAIN snippet_ranges :
                      Contains(snippet_ranges[i], a) /\ Contains(snippet_ranges[i], b))
                 <=> (b - a - 1 <= 4))

\* a gap of exactly 4 (merged) followed by a gap of exactly 5 (split)
C4_Witness ==
    /\ RangesDone
    /\ \E a \in Flagged :
          /\ a + 5 \in Flagged
          /\ a + 11 \in Flagged
          /\ Flagged = {a, a + 5, a + 11}
    /\ Len(snippet_ranges) = 2

(***************************************************************************)
(* C5: every returned range (s, e) has s = max(1, f - 4) and               *)
(* e = min(num_src_lines, l + 4) for the smallest and largest violation    *)
(* lines f, l inside it, whether closed in the sweep or after it; a single *)
(* violation line L in 1..num_src_lines gives exactly the one range        *)
(* (max(1, L - 4), min(num_src_lines, L + 4)).                             *)
(***************************************************************************)
C5_RangeIsPaddedSpan ==
    RangesDone =>
        /\ \A i \in DOMAIN snippet_ranges :
              LET r == snippet_ranges[i]
                  inside == FlaggedIn(r)
              IN  /\ inside # {}
                  /\ r[1] = Max(1, SetMin(inside) - 4)
                  /\ r[2] = Min(num_src_lines, SetMax(inside) + 4)
        /\ \A L \in Flagged :
              Flagged = {L} =>
                  snippet_ranges =
                      << <<Max(1, L - 4), Min(num_src_lines, L + 4)>> >>

\* a range closed in the sweep short of the last line, then a range closed
\* after the sweep whose last violation is less than 4 lines from the end
C5_Witness ==
    /\ RangesDone
    /\ Len(snippet_ranges) >= 2
    /\ snippet_ranges[1][2] < num_src_lines
    /\ LET last == snippet_ranges[Len(snippet_ranges)]
       IN  /\ last[2] = num_src_lines
           /\ FlaggedIn(last) # {}
           /\ SetMax(FlaggedIn(last)) + 4 > num_src_lines
           /\ SetMax(FlaggedIn(last)) < num_src_lines

(***************************************************************************)
(* C6: load_snippets returns one snippet per range of _snippet_ranges over *)
(* the number of lines of the source, in the same order; the snippet of    *)
(* range (start, end) holds lines start..end of the source joined by "\n", *)
(* and its line_range() is (start, end).                                   *)
(***************************************************************************)
C6_OneSnippetPerRange ==
    LoadDone =>
        LET lines == split(contents)
            ranges == _snippet_ranges(Len(lines), violation_lines)
        IN  /\ Len(snippet_list) = Len(ranges)
            /\ \A i \in DOMAIN snippet_list :
                  i \in DOMAIN ranges =>
                      LET start == ranges[i][1]
                          end == ranges[i][2]
                          text == split(snippet_list[i].src_str)
                      IN  /\ snippet_list[i].start_line = start
                          /\ Len(text) = end - start + 1
                          /\ \A k \in 1..Len(text) :
                                start + k - 1 \in DOMAIN lines
                                /\ text[k] = lines[start + k - 1]
                          /\ snippet_list[i].src_str = join(text)
                          /\ line_range(snippet_list[i]) = <<start, end>>

\* the fixture file with two snippets, the second not starting at line 1
C6_Witness ==
    /\ LoadDone
    /\ contents = _src_lines(1, num_src_lines)
    /\ Len(snippet_list) >= 2
    /\ snippet_list[2].start_line > 1
    /\ Len(split(snippet_list[2].src_str)) >= 2
    /\ snippet_list[2].src_str =
          _src_lines(snippet_ranges[2][1], snippet_ranges[2][2])

(***************************************************************************)
(* C7 (as claimed): loading snippets from a zero-length source text gives  *)
(* no snippet, whatever the violation lines.                               *)
(* The code breaks it: ''.split('\n') is [''], one line, so a violation    *)
(* on line 1 gives the snippet ('', start line 1).                         *)
(***************************************************************************)
C7_EmptySourceNoSnippets ==
    (LoadDone /\ contents = <<>>) => snippet_list = <<>>

(***************************************************************************)
(* C8 (as claimed): the hl_lines html() hands to the formatter are exactly *)
(* the relative positions of the violation lines inside the snippet's own  *)
(* span [start, end]; every offset lies in 1..(lines of the snippet).      *)
(* The code keeps the violation lines after the snippet's end.             *)
(***************************************************************************)
C8_OffsetsWithinSnippet ==
    HtmlDone =>
        \A i \in DOMAIN hl_lines :
            LET snippet == snippet_list[i]
                span == line_range(snippet)
            IN  /\ \A k \in DOMAIN hl_lines[i] :
                      1 <= hl_lines[i][k]
                      /\ hl_lines[i][k] <= Len(split(snippet.src_str))
                /\ Values(hl_lines[i]) =
                      {F - snippet.start_line + 1 :
                          F \in {v \in Values(snippet.violation_lines) :
                                    Contains(span, v)}}

(***************************************************************************)
(* C8 (amended): the hl_lines html() hands to the formatter are, in input  *)
(* order, line - start + 1 for every stored violation line >= the          *)
(* snippet's start: violation lines before the start are ignored, so every *)
(* offset is >= 1; violation lines after the snippet's end are handed over *)
(* too (with offsets beyond the snippet), and the offsets that lie in      *)
(* 1..(lines of the snippet) are exactly the relative positions of the     *)
(* violation lines inside the snippet's span [start, end].                 *)
(***************************************************************************)
C8_OffsetsFromStart ==
    HtmlDone =>
        /\ Len(hl_lines) = Len(snippet_list)
        /\ \A i \in DOMAIN hl_lines :
              LET snippet == snippet_list[i]
                  span == line_range(snippet)
                  n == Len(split(snippet.src_str))
              IN  /\ ShiftedFrom(snippet.violation_lines, snippet.start_line,
                                 hl_lines[i])
                  /\ \A k \in DOMAIN hl_lines[i] : hl_lines[i][k] >= 1
                  /\ {h \in Values(hl_lines[i]) : h <= n} =
                        {F - snippet.start_line + 1 :
                            F \in {v \in Values(snippet.violation_lines) :
                                      Contains(span, v)}}

\* a loaded snippet with a violation line before its start, one at its
\* start or inside, and one after its end
C8_Witness ==
    /\ HtmlDone
    /\ \E i \in DOMAIN hl_lines :
          LET snippet == snippet_list[i]
              span == line_range(snippet)
          IN  /\ \E v \in Values(snippet.violation_lines) : v < span[1]
              /\ \E v \in Values(snippet.violation_lines) : Contains(span, v)
              /\ \E v \in Values(snippet.violation_lines) : v > span[2]
              /\ \E k \in DOMAIN hl_lines[i] :
                    hl_lines[i][k] > Len(split(snippet.src_str))

(***************************************************************************)
(* C9: _shift_lines(lines, start) returns, in input order,                 *)
(* line - start + 1 for each line >= start and nothing for a line < start; *)
(* every output value is >= 1 and the output is no longer than the input.  *)
(***************************************************************************)
C9_ShiftLines ==
    (pc = "done" /\ entry = "_shift_lines") =>
        /\ ShiftedFrom(violation_lines, start_line, shifted)
        /\ \A k \in DOMAIN shifted : shifted[k] >= 1
        /\ Len(shifted) <= Len(violation_lines)

\* a list out of order with a line before start, the start line itself and
\* a line after it
C9_Witness ==
    /\ pc = "done" /\ entry = "_shift_lines"
    /\ Len(violation_lines) = 3
    /\ violation_lines[1] > start_line
    /\ violation_lines[2] < start_line
    /\ violation_lines[3] = start_line
    /\ shifted = <<violation_lines[1] - start_line + 1, 1>>

(***************************************************************************)
(* C10: _snippet_ranges returns the empty list whenever no violation line  *)
(* lies in 1..num_src_lines: an empty list of violations, a file of 0      *)
(* lines, or only values <= 0 or > num_src_lines.                          *)
(***************************************************************************)
C10_NoFlaggedNoRanges ==
    (RangesDone /\ Flagged = {}) => snippet_ranges = <<>>

\* a file with lines, and violation lines on both sides of it
C10_Witness ==
    /\ RangesDone
    /\ num_src_lines >= 1
    /\ \E v \in Values(violation_lines) : v <= 0
    /\ \E v \in Values(violation_lines) : v > num_src_lines
    /\ Flagged = {}
    /\ snippet_ranges = <<>>

====
